---- MODULE Spec2Model ----
(***************************************************************************)
(* Hierarchical transform system of Silnik_3d: Transform (spatial frame),  *)
(* TransformableObject (scene node) and SceneManager (registry).           *)
(*                                                                         *)
(* Geometry is exact integer geometry: a vector is <<x, y, z>>, a matrix   *)
(* is the affine map v |-> M v + t written <<M, t>> with M a tuple of      *)
(* three rows, and the matrix product is composition.  A quaternion is     *)
(* <<w, x, y, z>> and stands for the unit quaternion on its ray (itself    *)
(* divided by its length); the representative has coprime integer          *)
(* components, so glm::normalize is the division by their gcd.  The        *)
(* rotations used are the quarter turns about the axes and their products. *)
(* A frame is identified by the address of its Transform: slot 1..NumFrames*)
(* and 0 is the null pointer.  A destroyed frame's slot may be handed out  *)
(* again by the allocator.                                                 *)
(***************************************************************************)
EXTENDS Integers, Sequences, FiniteSets, TLC

NumFrames == 3
MaxPos == 1
MaxScale == 2
MaxOps == 5
MaxTreeOps == 4
MaxSceneOps == 4
MaxReuseOps == 7
MaxCounter == 2
MaxCacheOps == 4
MaxRegistryOps == 4
MaxBatchOps == 3
MaxPoseOps == 1
MaxDirtyOps == 2
MaxRenderOps == 2
MaxPasses == 4

Frames == 1..NumFrames
Null == 0
ZeroVec == <<0, 0, 0>>
OneVec == <<1, 1, 1>>
IdentityQuat == <<1, 0, 0, 0>>
QuarterX == <<1, 1, 0, 0>>
QuarterY == <<1, 0, 1, 0>>
QuarterZ == <<1, 0, 0, 1>>
Positions == {<<x, 0, 0>> : x \in 0..MaxPos}
Scales == {<<s, 1, 1>> : s \in 1..MaxScale}
Rotations == {QuarterX, QuarterY}
Spaces == {"LOCAL", "WORLD"}

VARIABLES alive, position, scale, rotation, parent, children, dirty,
          localMatrix, worldMatrix, status, lastOp, budget,
          objects, named, counter, brk, issued

frameVars == <<alive, position, scale, rotation, parent, children, dirty,
               localMatrix, worldMatrix>>

sceneVars == <<objects, named, counter, brk, issued>>

vars == <<alive, position, scale, rotation, parent, children, dirty,
          localMatrix, worldMatrix, status, lastOp, budget,
          objects, named, counter, brk, issued>>

----------------------------------------------------------------------------
(* Matrices *)

VAdd(a, b) == <<a[1] + b[1], a[2] + b[2], a[3] + b[3]>>

(* vec3 * vec3 is componentwise. *)
VMul(a, b) == <<a[1] * b[1], a[2] * b[2], a[3] * b[3]>>

Dot(a, b) == a[1] * b[1] + a[2] * b[2] + a[3] * b[3]

MatVec(M, v) == <<Dot(M[1], v), Dot(M[2], v), Dot(M[3], v)>>

RowMul(r, B) ==
    << r[1] * B[1][1] + r[2] * B[2][1] + r[3] * B[3][1],
       r[1] * B[1][2] + r[2] * B[2][2] + r[3] * B[3][2],
       r[1] * B[1][3] + r[2] * B[2][3] + r[3] * B[3][3] >>

MatMul(A, B) == <<RowMul(A[1], B), RowMul(A[2], B), RowMul(A[3], B)>>

Identity3 == <<<<1, 0, 0>>, <<0, 1, 0>>, <<0, 0, 1>>>>

Identity == <<Identity3, ZeroVec>>

Mul(m, n) == <<MatMul(m[1], n[1]), VAdd(MatVec(m[1], n[2]), m[2])>>

Translation(p) == <<Identity3, p>>

Scaling(s) == <<<<<<s[1], 0, 0>>, <<0, s[2], 0>>, <<0, 0, s[3]>>>>, ZeroVec>>

Abs(n) == IF n < 0 THEN -n ELSE n

RECURSIVE Gcd(_, _)
Gcd(a, b) == IF b = 0 THEN a ELSE Gcd(b, a % b)

Norm2(q) == q[1] * q[1] + q[2] * q[2] + q[3] * q[3] + q[4] * q[4]

(* glm::normalize on a quaternion: the unit quaternion of the same ray. *)
normalize(q) ==
    LET g == Gcd(Gcd(Abs(q[1]), Abs(q[2])), Gcd(Abs(q[3]), Abs(q[4])))
    IN <<q[1] \div g, q[2] \div g, q[3] \div g, q[4] \div g>>

(* quat * quat, the Hamilton product. *)
quatMul(p, q) ==
    <<p[1] * q[1] - p[2] * q[2] - p[3] * q[3] - p[4] * q[4],
      p[1] * q[2] + p[2] * q[1] + p[3] * q[4] - p[4] * q[3],
      p[1] * q[3] + p[3] * q[1] + p[4] * q[2] - p[2] * q[4],
      p[1] * q[4] + p[4] * q[1] + p[2] * q[3] - p[3] * q[2]>>

(* quat * vec3: the vector turned by the unit quaternion of q,             *)
(* v + 2 (w (u x v) + u x (u x v)) with u the vector part.                 *)
quatRotate(q, v) ==
    LET w == q[1]
        u == <<q[2], q[3], q[4]>>
        uv == <<u[2] * v[3] - u[3] * v[2], u[3] * v[1] - u[1] * v[3],
                u[1] * v[2] - u[2] * v[1]>>
        uuv == <<u[2] * uv[3] - u[3] * uv[2], u[3] * uv[1] - u[1] * uv[3],
                 u[1] * uv[2] - u[2] * uv[1]>>
        n == Norm2(q)
    IN << (n * v[1] + 2 * (w * uv[1] + uuv[1])) \div n,
          (n * v[2] + 2 * (w * uv[2] + uuv[2])) \div n,
          (n * v[3] + 2 * (w * uv[3] + uuv[3])) \div n >>

(* glm::mat4_cast: the rotation matrix of the unit quaternion of q. *)
Rotation(q) ==
    LET w == q[1]
        x == q[2]
        y == q[3]
        z == q[4]
        n == Norm2(q)
    IN << << << (n - 2 * (y * y + z * z)) \div n, (2 * (x * y - w * z)) \div n,
                (2 * (x * z + w * y)) \div n >>,
             << (2 * (x * y + w * z)) \div n, (n - 2 * (x * x + z * z)) \div n,
                (2 * (y * z - w * x)) \div n >>,
             << (2 * (x * z - w * y)) \div n, (2 * (y * z + w * x)) \div n,
                (n - 2 * (x * x + y * y)) \div n >> >>,
          ZeroVec >>

Range(s) == {s[i] : i \in 1..Len(s)}

Find(s, x) == IF x \in Range(s)
              THEN CHOOSE i \in 1..Len(s) : s[i] = x /\ \A j \in 1..(i-1) : s[j] # x
              ELSE 0

(* An erase that leaves the element in place. *)
Erase_keep(s, i) == s

Erase(s, i) == [j \in 1..(Len(s)-1) |-> IF j < i THEN s[j] ELSE s[j+1]]

(* An erase by value that drops the last element instead of the match. *)
EraseFirst_last(s, x) == IF Find(s, x) = 0 THEN s ELSE Erase(s, Len(s))

EraseFirst(s, x) == IF Find(s, x) = 0 THEN s ELSE Erase(s, Find(s, x))

NoRet == <<<<ZeroVec, ZeroVec, ZeroVec>>, ZeroVec>>

None == Null - 1

NoKey == "-"

CreateOps == {"createCube", "createSphere", "createCylinder", "createLetterH"}

NoCollision == [ph |-> 0, n |-> NoKey, a |-> Null, b |-> Null, objs |-> <<>>]

(* Progress of the calls made so far through the sequence                  *)
(*   create*(n), create*(n), getObject(n)*, removeObject(n), getObject(n)  *)
(* on one explicit name n: ph 2 after the second create (a and b are the   *)
(* two nodes, objs the ordered collection then), 3 after a getObject(n),   *)
(* 4 after removeObject(n), 5 after the getObject(n) that follows it.      *)
Collision(name, f, key) ==
    LET c == lastOp.col IN
    IF name \in CreateOps
    THEN IF key # "" /\ lastOp.op \in CreateOps /\ lastOp.key = key
         THEN [ph |-> 2, n |-> key, a |-> lastOp.f, b |-> f,
               objs |-> Append(objects, f)]
         ELSE NoCollision
    ELSE IF name = "getObject" /\ c.n = key /\ c.ph \in {2, 3}
         THEN [c EXCEPT !.ph = 3]
    ELSE IF name = "getObject" /\ c.n = key /\ c.ph \in {4, 5}
         THEN [c EXCEPT !.ph = 5]
    ELSE IF name = "removeObject" /\ c.n = key /\ c.ph \in {2, 3}
         THEN [c EXCEPT !.ph = 4]
    ELSE NoCollision

NoSnap == [on |-> FALSE, v |-> ZeroVec, pos |-> [f \in Frames |-> ZeroVec]]

(* The record of the last call: operation, receiver (for create*: the new  *)
(* node), argument, returned value, (prev) the argument of the call before *)
(* it when that was the same operation on the same receiver, (orph) the    *)
(* frames that were in the children list of a frame the call destroyed,    *)
(* (key, idx) the name (for a batch transform: the space) and the index    *)
(* passed to a registry call, (col) the progress through a name collision, *)
(* and (snap) the translation and the positions before the last            *)
(* translateAll in world space while only getters were called since.       *)
OpQ(name, f, arg, ret, orph, key, idx) ==
    [op |-> name, f |-> f, arg |-> arg, ret |-> ret,
     prev |-> IF lastOp.op = name /\ lastOp.f = f THEN lastOp.arg ELSE None,
     orph |-> orph, key |-> key, idx |-> idx,
     col |-> Collision(name, f, key),
     snap |-> IF name = "getWorldMatrix" THEN lastOp.snap ELSE NoSnap]

OpD(name, f, arg, ret, orph) == OpQ(name, f, arg, ret, orph, NoKey, None)

NoOp == [op |-> "init", f |-> Null, arg |-> Null, ret |-> NoRet,
         prev |-> None, orph |-> {}, key |-> NoKey, idx |-> None,
         col |-> NoCollision, snap |-> NoSnap]

Op(name, f, arg, ret) == OpD(name, f, arg, ret, {})

----------------------------------------------------------------------------
(* Transform::updateMatrices, on a heap h = the mutable cache fields.      *)
(* h.st becomes "overflow" when the upward recursion revisits a frame and  *)
(* h.uaf is set when a destroyed frame is written through a stale pointer. *)

Heap == [d |-> dirty, l |-> localMatrix, w |-> worldMatrix,
         st |-> "ok", uaf |-> FALSE]

(* A local matrix that scales after turning: T * S * R. *)
LocalOf_TSR(pos, rot, scl) == Mul(Mul(Translation(pos), Scaling(scl)), Rotation(rot))

LocalOf(pos, rot, scl) == Mul(Mul(Translation(pos), Rotation(rot)), Scaling(scl))

(* An updateMatrices that leaves the children's flags alone. *)
MarkChildren_none(h, f) == h

MarkChildren(h, f) ==
    [h EXCEPT !.d = [c \in Frames |->
                        IF alive[c] /\ c \in Range(children[f]) THEN TRUE ELSE h.d[c]],
              !.uaf = h.uaf \/ (\E c \in Range(children[f]) : ~alive[c])]

RECURSIVE updateMatrices(_, _, _)
updateMatrices(h, f, fuel) ==
    IF fuel = 0 THEN [h EXCEPT !.st = "overflow"]
    ELSE
    LET local == LocalOf(position[f], rotation[f], scale[f])
        h1 == [h EXCEPT !.l[f] = local]
        p == parent[f]
        h2 == IF p = Null THEN h1
              ELSE IF ~alive[p] THEN [h1 EXCEPT !.st = "fault"]
              ELSE IF h1.d[p] THEN updateMatrices(h1, p, fuel - 1)
              ELSE h1
        world == IF p = Null THEN local ELSE Mul(h2.w[p], local)
    IN IF h2.st # "ok" THEN h2
       ELSE MarkChildren([h2 EXCEPT !.w[f] = world, !.d[f] = FALSE], f)

(* A getter that invalidates the cache of a clean frame it reads. *)
getMatrix_invalidate(f) ==
    IF dirty[f] THEN updateMatrices(Heap, f, NumFrames)
    ELSE [Heap EXCEPT !.d[f] = TRUE]

getMatrix(f) == IF dirty[f] THEN updateMatrices(Heap, f, NumFrames) ELSE Heap

Returned(h, op, f, m) ==
    /\ status' \in (IF h.st # "ok" THEN {h.st}
                    ELSE IF h.uaf THEN {"ok", "fault"} ELSE {"ok"})
    /\ dirty' = h.d
    /\ localMatrix' = h.l
    /\ worldMatrix' = h.w
    /\ lastOp' = Op(op, f, Null, IF h.st = "ok" THEN m ELSE NoRet)

----------------------------------------------------------------------------
Init ==
    /\ alive = [f \in Frames |-> TRUE]
    /\ position = [f \in Frames |-> ZeroVec]
    /\ scale = [f \in Frames |-> OneVec]
    /\ rotation = [f \in Frames |-> IdentityQuat]
    /\ parent = [f \in Frames |-> Null]
    /\ children = [f \in Frames |-> <<>>]
    /\ dirty = [f \in Frames |-> TRUE]
    /\ localMatrix = [f \in Frames |-> Identity]
    /\ worldMatrix = [f \in Frames |-> Identity]
    /\ status = "ok"
    /\ lastOp = NoOp
    /\ budget = MaxOps
    /\ objects = <<>>
    /\ named = [n \in {} |-> Null]
    /\ counter = 0
    /\ brk = NumFrames
    /\ issued = <<>>

(* The program is running and the client makes one more call; budget is   *)
(* the number of calls left in the run.                                    *)
Call == status = "ok" /\ budget > 0 /\ budget' = budget - 1

(* A markDirty that also marks the children of the frame. *)
markDirty_children(f) ==
    [c \in Frames |-> IF c = f \/ c \in Range(children[f]) THEN TRUE ELSE dirty[c]]

markDirty(f) == [dirty EXCEPT ![f] = TRUE]

SetPosition(f, v) ==
    /\ Call /\ alive[f]
    /\ position' = [position EXCEPT ![f] = v]
    /\ dirty' = markDirty(f)
    /\ lastOp' = Op("setPosition", f, v, NoRet)
    /\ UNCHANGED <<alive, scale, rotation, parent, children, localMatrix, worldMatrix, status, sceneVars>>

SetScale(f, v) ==
    /\ Call /\ alive[f]
    /\ scale' = [scale EXCEPT ![f] = v]
    /\ dirty' = markDirty(f)
    /\ lastOp' = Op("setScale", f, v, NoRet)
    /\ UNCHANGED <<alive, position, rotation, parent, children, localMatrix, worldMatrix,
                   status, sceneVars>>

(* setParent that forgets to append f to the new parent's children. *)
setParentLinks_noPush(f, p) ==
    [par |-> [parent EXCEPT ![f] = p],
     ch |-> IF parent[f] # Null
            THEN [children EXCEPT ![parent[f]] = EraseFirst(children[parent[f]], f)]
            ELSE children]

(* The parent/children fields after f.setParent(p). *)
setParentLinks(f, p) ==
    LET old == parent[f]
        c1 == IF old # Null
              THEN [children EXCEPT ![old] = EraseFirst(children[old], f)]
              ELSE children
        c2 == IF p # Null THEN [c1 EXCEPT ![p] = Append(c1[p], f)] ELSE c1
    IN [par |-> [parent EXCEPT ![f] = p], ch |-> c2]

setParent(f, p, op, arg) ==
    /\ lastOp' = Op(op, f, arg, NoRet)
    /\ IF parent[f] = p
       THEN UNCHANGED <<parent, children, dirty>>
       ELSE /\ parent' = setParentLinks(f, p).par
            /\ children' = setParentLinks(f, p).ch
            /\ dirty' = markDirty(f)
    /\ UNCHANGED <<alive, position, scale, rotation, localMatrix, worldMatrix, status, sceneVars>>

SetParent(f, p) ==
    /\ Call /\ alive[f] /\ (p # Null => alive[p])
    /\ setParent(f, p, "setParent", p)

AddChild(f, c) ==
    /\ Call /\ alive[f] /\ (c # Null => alive[c])
    /\ IF c = Null \/ c = f
       THEN /\ lastOp' = Op("addChild", f, c, NoRet)
            /\ UNCHANGED <<alive, position, scale, rotation, parent, children, dirty,
                           localMatrix, worldMatrix, status, sceneVars>>
       ELSE /\ setParent(c, f, "addChild", f)

RemoveChild(f, c) ==
    /\ Call /\ alive[f] /\ alive[c]
    /\ lastOp' = Op("removeChild", f, c, NoRet)
    /\ IF c \in Range(children[f])
       THEN /\ children' = [children EXCEPT ![f] = EraseFirst(children[f], c)]
            /\ parent' = [parent EXCEPT ![c] = Null]
            /\ dirty' = markDirty(c)
       ELSE UNCHANGED <<parent, children, dirty>>
    /\ UNCHANGED <<alive, position, scale, rotation, localMatrix, worldMatrix, status, sceneVars>>

GetWorldMatrix(f) ==
    /\ Call /\ alive[f]
    /\ \E h \in {getMatrix(f)} : Returned(h, "getWorldMatrix", f, h.w[f])
    /\ UNCHANGED <<alive, position, scale, rotation, parent, children, sceneVars>>

GetLocalMatrix(f) ==
    /\ Call /\ alive[f]
    /\ \E h \in {getMatrix(f)} : Returned(h, "getLocalMatrix", f, h.l[f])
    /\ UNCHANGED <<alive, position, scale, rotation, parent, children, sceneVars>>

Next ==
    \/ \E f \in Frames, v \in Positions : SetPosition(f, v)
    \/ \E f \in Frames, v \in Scales : SetScale(f, v)
    \/ \E f \in Frames, p \in Frames \cup {Null} : SetParent(f, p)
    \/ \E f \in Frames, c \in Frames \cup {Null} : AddChild(f, c)
    \/ \E f \in Frames, c \in Frames : RemoveChild(f, c)
    \/ \E f \in Frames : GetWorldMatrix(f)
    \/ \E f \in Frames : GetLocalMatrix(f)

----------------------------------------------------------------------------
(* Scene nodes and the registry.  A node exclusively owns one Transform    *)
(* (unique_ptr), so a node is identified with the slot of its frame.       *)
(* brk is the highest slot the allocator has handed out so far: a new      *)
(* frame gets the next fresh slot or any slot freed earlier.               *)

FreeSlots == {f \in Frames : ~alive[f] /\ (f <= brk \/ f = brk + 1)}

(* A destructor that leaves the children's parent pointers alone. *)
destroy_keepParent(L, f) ==
    [L EXCEPT !.ch[f] = <<>>, !.al[f] = FALSE, !.par[f] = Null]

(* Transform::~Transform on the link fields L = [al, par, ch, uaf]: every  *)
(* element of m_children gets m_parent = nullptr; an element that was      *)
(* destroyed earlier is written through a stale pointer (uaf).  The frame  *)
(* is not erased from its own parent's children list.                      *)
destroy(L, f) ==
    [L EXCEPT !.par = [c \in Frames |->
                          IF c = f THEN Null
                          ELSE IF L.al[c] /\ c \in Range(L.ch[f]) THEN Null
                          ELSE L.par[c]],
              !.uaf = L.uaf \/ (\E c \in Range(L.ch[f]) : c # f /\ ~L.al[c]),
              !.ch[f] = <<>>,
              !.al[f] = FALSE]

RECURSIVE destroyAll(_, _)
destroyAll(L, seq) ==
    IF seq = <<>> THEN L ELSE destroyAll(destroy(L, Head(seq)), Tail(seq))

Reverse(s) == [i \in 1..Len(s) |-> s[Len(s) + 1 - i]]

Links == [al |-> alive, par |-> parent, ch |-> children, uaf |-> FALSE]

(* The frame fields once the frames of dead have been destroyed, L being   *)
(* the link fields the destructors left.                                   *)
Destroyed(L, dead) ==
    /\ alive' = L.al
    /\ parent' = L.par
    /\ children' = L.ch
    /\ status' \in (IF L.uaf THEN {"ok", "fault"} ELSE {"ok"})
    /\ position' = [f \in Frames |-> IF f \in dead THEN ZeroVec ELSE position[f]]
    /\ scale' = [f \in Frames |-> IF f \in dead THEN OneVec ELSE scale[f]]
    /\ rotation' = [f \in Frames |-> IF f \in dead THEN IdentityQuat ELSE rotation[f]]
    /\ dirty' = [f \in Frames |-> IF f \in dead THEN TRUE ELSE dirty[f]]
    /\ localMatrix' = [f \in Frames |-> IF f \in dead THEN Identity ELSE localMatrix[f]]
    /\ worldMatrix' = [f \in Frames |-> IF f \in dead THEN Identity ELSE worldMatrix[f]]

FormerChildren(dead) == UNION {Range(children[f]) : f \in dead}

(* A generator that numbers a name by the current size of the registry. *)
generateUniqueName_bySize(base) == base \o "_" \o ToString(Len(objects))

(* static int counter: one counter for every base and every registry;      *)
(* issued records the names handed out so far.                             *)
generateUniqueName(base) == base \o "_" \o ToString(counter)

(* A map insertion that keeps the entry a name already has. *)
register_keepFirst(objName, f) ==
    [n \in DOMAIN named \cup {objName} |->
        IF n \in DOMAIN named THEN named[n] ELSE f]

(* m_namedObjects[objName] = result *)
register(objName, f) ==
    [n \in DOMAIN named \cup {objName} |-> IF n = objName THEN f ELSE named[n]]

(* create*: make_unique<...>, setPosition (createCube: also setScale),     *)
(* name it, push_back, m_namedObjects[objName] = result.                   *)
create(base, name, pos, scl) ==
    /\ name = "" => counter < MaxCounter
    /\ \E f \in FreeSlots :
        LET objName == IF name = "" THEN generateUniqueName(base) ELSE name
        IN /\ alive' = [alive EXCEPT ![f] = TRUE]
           /\ position' = [position EXCEPT ![f] = pos]
           /\ scale' = [scale EXCEPT ![f] = scl]
           /\ rotation' = [rotation EXCEPT ![f] = IdentityQuat]
           /\ parent' = [parent EXCEPT ![f] = Null]
           /\ children' = [children EXCEPT ![f] = <<>>]
           /\ dirty' = [dirty EXCEPT ![f] = TRUE]
           /\ localMatrix' = [localMatrix EXCEPT ![f] = Identity]
           /\ worldMatrix' = [worldMatrix EXCEPT ![f] = Identity]
           /\ objects' = Append(objects, f)
           /\ named' = register(objName, f)
           /\ brk' = IF f > brk THEN f ELSE brk
           /\ lastOp' = OpQ("create" \o base, f, Null, NoRet, {}, name, None)
           /\ issued' = IF name = "" THEN Append(issued, objName) ELSE issued
    /\ counter' = IF name = "" THEN counter + 1 ELSE counter
    /\ UNCHANGED status

CreateCube(name, pos, scl) == Call /\ create("Cube", name, pos, scl)

CreateSphere(name, pos) == Call /\ create("Sphere", name, pos, OneVec)

CreateCylinder(name, pos) == Call /\ create("Cylinder", name, pos, OneVec)

CreateLetterH(name, pos) == Call /\ create("LetterH", name, pos, OneVec)

RemoveObjectByName(name) ==
    /\ Call
    /\ IF name \in DOMAIN named
       THEN LET obj == named[name]
                held == obj \in Range(objects)
                dead == IF held THEN {obj} ELSE {}
            IN /\ named' = [n \in DOMAIN named \ {name} |-> named[n]]
               /\ objects' = EraseFirst(objects, obj)
               /\ Destroyed(IF held THEN destroy(Links, obj) ELSE Links, dead)
               /\ lastOp' = OpQ("removeObject", Null, IF held THEN obj ELSE Null,
                                NoRet, FormerChildren(dead), name, None)
       ELSE /\ lastOp' = OpQ("removeObject", Null, Null, NoRet, {}, name, None)
            /\ UNCHANGED <<frameVars, status, objects, named>>
    /\ UNCHANGED <<counter, brk, issued>>

(* removeObject(index) that leaves the name map alone. *)
eraseEntryOf_skip(obj) == UNCHANGED named

(* The loop of removeObject(index) over the name map: the first entry      *)
(* found with it->second == obj is erased.                                 *)
eraseEntryOf(obj) ==
    LET keys == {n \in DOMAIN named : named[n] = obj}
    IN IF keys = {} THEN UNCHANGED named
       ELSE \E k \in keys : named' = [n \in DOMAIN named \ {k} |-> named[n]]

RemoveObjectByIndex(i) ==
    /\ Call
    /\ IF i < Len(objects)
       THEN LET obj == objects[i + 1]
            IN /\ eraseEntryOf(obj)
               /\ objects' = Erase(objects, i + 1)
               /\ Destroyed(destroy(Links, obj), {obj})
               /\ lastOp' = OpQ("removeObject", Null, obj, NoRet,
                                FormerChildren({obj}), NoKey, i)
       ELSE /\ lastOp' = OpQ("removeObject", Null, Null, NoRet, {}, NoKey, i)
            /\ UNCHANGED <<frameVars, status, objects, named>>
    /\ UNCHANGED <<counter, brk, issued>>

(* m_objects.clear() destroys the nodes front to back or back to front,    *)
(* as the standard library of the build does.                              *)
Clear ==
    /\ Call
    /\ \E order \in {objects, Reverse(objects)} :
           Destroyed(destroyAll(Links, order), Range(objects))
    /\ objects' = <<>>
    /\ named' = [n \in {} |-> Null]
    /\ lastOp' = OpD("clear", Null, Null, NoRet, FormerChildren(Range(objects)))
    /\ UNCHANGED <<counter, brk, issued>>

(* A lookup that falls back to the first node when the name is unknown. *)
GetObjectByName_first(name) ==
    /\ Call
    /\ lastOp' = OpQ("getObject", Null, Null,
                     IF name \in DOMAIN named THEN named[name]
                     ELSE IF objects # <<>> THEN objects[1] ELSE Null,
                     {}, name, None)
    /\ UNCHANGED <<frameVars, status, sceneVars>>

GetObjectByName(name) ==
    /\ Call
    /\ lastOp' = OpQ("getObject", Null, Null,
                     IF name \in DOMAIN named THEN named[name] ELSE Null,
                     {}, name, None)
    /\ UNCHANGED <<frameVars, status, sceneVars>>

GetObjectByIndex(i) ==
    /\ Call
    /\ lastOp' = OpQ("getObject", Null, Null,
                     IF i < Len(objects) THEN objects[i + 1] ELSE Null,
                     {}, NoKey, i)
    /\ UNCHANGED <<frameVars, status, sceneVars>>

(* TransformableObject::addChild: no self check before child->setParent.   *)
NodeAddChild(f, c) ==
    /\ Call /\ alive[f] /\ (c # Null => alive[c])
    /\ IF c = Null
       THEN /\ lastOp' = Op("nodeAddChild", f, c, NoRet)
            /\ UNCHANGED <<alive, position, scale, rotation, parent, children, dirty,
                           localMatrix, worldMatrix, status, sceneVars>>
       ELSE /\ setParent(c, f, "nodeAddChild", f)

(* A batch loop that skips the nodes that have a parent. *)
Registered_roots == {f \in Range(objects) : parent[f] = Null}

(* for (auto& obj : m_objects) *)
Registered == Range(objects)

(* Transform::translate, rotate and scale on the attributes of one frame. *)
(* A translate that treats every space as the world space. *)
translate_world(f, v, space) == VAdd(position[f], v)

translate(f, v, space) ==
    IF space = "LOCAL" THEN VAdd(position[f], quatRotate(rotation[f], v))
    ELSE VAdd(position[f], v)

(* A rotate that multiplies from the left in both spaces. *)
rotate_pre(f, q, space) == normalize(quatMul(q, rotation[f]))

rotate(f, q, space) ==
    normalize(IF space = "LOCAL" THEN quatMul(q, rotation[f])
              ELSE quatMul(rotation[f], q))

scaleBy(f, k) == VMul(scale[f], k)

TranslateAll(v, space) ==
    /\ Call
    /\ position' = [f \in Frames |->
                      IF f \in Registered THEN translate(f, v, space) ELSE position[f]]
    /\ dirty' = [f \in Frames |-> IF f \in Registered THEN TRUE ELSE dirty[f]]
    /\ lastOp' = [OpQ("translateAll", Null, v, NoRet, {}, space, None)
                    EXCEPT !.snap = [on |-> space = "WORLD", v |-> v, pos |-> position]]
    /\ UNCHANGED <<alive, scale, rotation, parent, children, localMatrix, worldMatrix,
                   status, sceneVars>>

RotateAll(q, space) ==
    /\ Call
    /\ rotation' = [f \in Frames |->
                      IF f \in Registered THEN rotate(f, q, space) ELSE rotation[f]]
    /\ dirty' = [f \in Frames |-> IF f \in Registered THEN TRUE ELSE dirty[f]]
    /\ lastOp' = OpQ("rotateAll", Null, q, NoRet, {}, space, None)
    /\ UNCHANGED <<alive, position, scale, parent, children, localMatrix, worldMatrix,
                   status, sceneVars>>

ScaleAll(k) ==
    /\ Call
    /\ scale' = [f \in Frames |->
                   IF f \in Registered THEN scaleBy(f, k) ELSE scale[f]]
    /\ dirty' = [f \in Frames |-> IF f \in Registered THEN TRUE ELSE dirty[f]]
    /\ lastOp' = Op("scaleAll", Null, k, NoRet)
    /\ UNCHANGED <<alive, position, rotation, parent, children, localMatrix, worldMatrix,
                   status, sceneVars>>

(* The mutators of one frame: Transform::translate, rotate, scale,         *)
(* setRotation and reset, reached through the node's methods of the same   *)
(* names.                                                                  *)
Translate(f, v, space) ==
    /\ Call /\ alive[f]
    /\ position' = [position EXCEPT ![f] = translate(f, v, space)]
    /\ dirty' = markDirty(f)
    /\ lastOp' = OpQ("translate", f, v, NoRet, {}, space, None)
    /\ UNCHANGED <<alive, scale, rotation, parent, children, localMatrix, worldMatrix,
                   status, sceneVars>>

Rotate(f, q, space) ==
    /\ Call /\ alive[f]
    /\ rotation' = [rotation EXCEPT ![f] = rotate(f, q, space)]
    /\ dirty' = markDirty(f)
    /\ lastOp' = OpQ("rotate", f, q, NoRet, {}, space, None)
    /\ UNCHANGED <<alive, position, scale, parent, children, localMatrix, worldMatrix,
                   status, sceneVars>>

ScaleBy(f, k) ==
    /\ Call /\ alive[f]
    /\ scale' = [scale EXCEPT ![f] = scaleBy(f, k)]
    /\ dirty' = markDirty(f)
    /\ lastOp' = Op("scale", f, k, NoRet)
    /\ UNCHANGED <<alive, position, rotation, parent, children, localMatrix, worldMatrix,
                   status, sceneVars>>

SetRotation(f, q) ==
    /\ Call /\ alive[f]
    /\ rotation' = [rotation EXCEPT ![f] = normalize(q)]
    /\ dirty' = markDirty(f)
    /\ lastOp' = Op("setRotation", f, q, NoRet)
    /\ UNCHANGED <<alive, position, scale, parent, children, localMatrix, worldMatrix,
                   status, sceneVars>>

Reset(f) ==
    /\ Call /\ alive[f]
    /\ position' = [position EXCEPT ![f] = ZeroVec]
    /\ rotation' = [rotation EXCEPT ![f] = IdentityQuat]
    /\ scale' = [scale EXCEPT ![f] = OneVec]
    /\ dirty' = markDirty(f)
    /\ lastOp' = Op("reset", f, Null, NoRet)
    /\ UNCHANGED <<alive, parent, children, localMatrix, worldMatrix, status, sceneVars>>

getObjectCount == Len(objects)

(* Names a client passes to removeObject: every name a cube or a sphere    *)
(* can be registered under, and one that never is.                         *)
LookupNames ==
    {"a", "none"} \cup {b \o "_" \o ToString(k) : b \in {"Cube", "Sphere"},
                                                 k \in 0..(MaxCounter - 1)}

NextScene ==
    \/ \E n \in {"a", ""}, v \in Positions : CreateCube(n, v, OneVec)
    \/ \E n \in {"a", ""}, v \in Positions : CreateSphere(n, v)
    \/ \E n \in LookupNames : RemoveObjectByName(n)
    \/ \E i \in 0..NumFrames : RemoveObjectByIndex(i)
    \/ Clear
    \/ \E f \in Frames, p \in Frames \cup {Null} : SetParent(f, p)
    \/ \E f \in Frames, c \in Frames \cup {Null} : NodeAddChild(f, c)
    \/ \E f \in Frames : GetWorldMatrix(f)

InitScene ==
    /\ alive = [f \in Frames |-> FALSE]
    /\ position = [f \in Frames |-> ZeroVec]
    /\ scale = [f \in Frames |-> OneVec]
    /\ rotation = [f \in Frames |-> IdentityQuat]
    /\ parent = [f \in Frames |-> Null]
    /\ children = [f \in Frames |-> <<>>]
    /\ dirty = [f \in Frames |-> TRUE]
    /\ localMatrix = [f \in Frames |-> Identity]
    /\ worldMatrix = [f \in Frames |-> Identity]
    /\ status = "ok"
    /\ lastOp = NoOp
    /\ budget = MaxSceneOps
    /\ objects = <<>>
    /\ named = [n \in {} |-> Null]
    /\ counter = 0
    /\ brk = 0
    /\ issued = <<>>

SpecScene == InitScene /\ [][NextScene]_vars

(* The registry alone: nodes of all four kinds under an explicit name, an  *)
(* explicit name of the form the generator produces, or a generated name.  *)
Kinds == {"Cube", "Sphere", "Cylinder", "LetterH"}

GivenNames == {"a", "Cube_0", ""}

RegistryNames ==
    {"a", "none"} \cup {b \o "_" \o ToString(k) : b \in Kinds, k \in 0..(MaxCounter - 1)}

InitRegistry ==
    /\ alive = [f \in Frames |-> FALSE]
    /\ position = [f \in Frames |-> ZeroVec]
    /\ scale = [f \in Frames |-> OneVec]
    /\ rotation = [f \in Frames |-> IdentityQuat]
    /\ parent = [f \in Frames |-> Null]
    /\ children = [f \in Frames |-> <<>>]
    /\ dirty = [f \in Frames |-> TRUE]
    /\ localMatrix = [f \in Frames |-> Identity]
    /\ worldMatrix = [f \in Frames |-> Identity]
    /\ status = "ok"
    /\ lastOp = NoOp
    /\ budget = MaxRegistryOps
    /\ objects = <<>>
    /\ named = [n \in {} |-> Null]
    /\ counter = 0
    /\ brk = 0
    /\ issued = <<>>

NextRegistry ==
    \/ \E n \in GivenNames : CreateCube(n, <<MaxPos, 0, 0>>, <<MaxScale, 1, 1>>)
    \/ \E n \in GivenNames : CreateSphere(n, <<MaxPos, 0, 0>>)
    \/ \E n \in GivenNames : CreateCylinder(n, <<MaxPos, 0, 0>>)
    \/ \E n \in GivenNames : CreateLetterH(n, <<MaxPos, 0, 0>>)
    \/ \E n \in RegistryNames : GetObjectByName(n)
    \/ \E i \in 0..NumFrames : GetObjectByIndex(i)
    \/ \E n \in RegistryNames : RemoveObjectByName(n)
    \/ \E i \in 0..NumFrames : RemoveObjectByIndex(i)
    \/ Clear

SpecRegistry == InitRegistry /\ [][NextRegistry]_vars

(* Batch transforms on the scene main() builds: wagonik1 with the other    *)
(* wagoniks as its children, one unit of length apart, nothing drawn yet.  *)
InitBatch ==
    /\ alive = [f \in Frames |-> TRUE]
    /\ position = [f \in Frames |-> <<f - 1, 0, 0>>]
    /\ scale = [f \in Frames |-> OneVec]
    /\ rotation = [f \in Frames |-> IdentityQuat]
    /\ parent = [f \in Frames |-> IF f = 1 THEN Null ELSE 1]
    /\ children = [f \in Frames |-> IF f = 1 THEN [i \in 1..(NumFrames - 1) |-> i + 1]
                                               ELSE <<>>]
    /\ dirty = [f \in Frames |-> TRUE]
    /\ localMatrix = [f \in Frames |-> Identity]
    /\ worldMatrix = [f \in Frames |-> Identity]
    /\ status = "ok"
    /\ lastOp = NoOp
    /\ budget = MaxBatchOps
    /\ objects = [i \in 1..NumFrames |-> i]
    /\ named = [n \in {"wagonik" \o ToString(f) : f \in Frames} |->
                  CHOOSE f \in Frames : n = "wagonik" \o ToString(f)]
    /\ counter = 0
    /\ brk = NumFrames
    /\ issued = <<>>

NextBatch ==
    \/ \E v \in Positions, space \in Spaces : TranslateAll(v, space)
    \/ \E q \in Rotations, space \in Spaces : RotateAll(q, space)
    \/ \E k \in Scales : ScaleAll(k)
    \/ \E f \in Frames, p \in Frames \cup {Null} : SetParent(f, p)
    \/ \E f \in Frames : GetWorldMatrix(f)

SpecBatch == InitBatch /\ [][NextBatch]_vars

(* translate and rotate as functions of their inputs: frame 1 is built by  *)
(* Transform(position, rotation, scale) from drawn values, the other       *)
(* frames by the default constructor, and one call follows.                *)
Vectors == {<<x, y, z>> : x \in {0, MaxPos}, y \in {0, MaxPos}, z \in {0, MaxPos}}

QuarterTurns == {QuarterX, QuarterY, QuarterZ}

InitPose ==
    /\ alive = [f \in Frames |-> TRUE]
    /\ \E p \in Positions, r \in QuarterTurns \cup {IdentityQuat}, k \in Scales :
          /\ position = [f \in Frames |-> IF f = 1 THEN p ELSE ZeroVec]
          /\ rotation = [f \in Frames |-> IF f = 1 THEN r ELSE IdentityQuat]
          /\ scale = [f \in Frames |-> IF f = 1 THEN k ELSE OneVec]
          /\ localMatrix = [f \in Frames |-> IF f = 1 THEN LocalOf(p, r, k) ELSE Identity]
          /\ worldMatrix = [f \in Frames |-> IF f = 1 THEN LocalOf(p, r, k) ELSE Identity]
    /\ parent = [f \in Frames |-> Null]
    /\ children = [f \in Frames |-> <<>>]
    /\ dirty = [f \in Frames |-> f # 1]
    /\ status = "ok"
    /\ lastOp = NoOp
    /\ budget = MaxPoseOps
    /\ objects = <<>>
    /\ named = [n \in {} |-> Null]
    /\ counter = 0
    /\ brk = NumFrames
    /\ issued = <<>>

NextPose ==
    \/ \E f \in Frames, v \in Vectors, space \in Spaces : Translate(f, v, space)
    \/ \E f \in Frames, q \in QuarterTurns, space \in Spaces : Rotate(f, q, space)

SpecPose == InitPose /\ [][NextPose]_vars

(* A getter that returns the cached matrix whatever the dirty flag says. *)
getMatrixOn_cached(h, f) == h

(* getWorldMatrix on the heap an earlier call of the same loop left. *)
getMatrixOn(h, f) == IF h.d[f] THEN updateMatrices(h, f, NumFrames) ELSE h

(* The render loop of main(): getObject(i)->getModelMatrix() for i from 0  *)
(* to getObjectCount() - 1; out collects the matrices handed to the shader.*)
RECURSIVE renderFrom(_, _, _)
renderFrom(h, i, out) ==
    IF i > getObjectCount \/ h.st # "ok" THEN [h |-> h, out |-> out]
    ELSE LET h1 == getMatrixOn(h, objects[i])
         IN renderFrom(h1, i + 1, Append(out, h1.w[objects[i]]))

Render ==
    /\ Call
    /\ \E r \in {renderFrom(Heap, 1, <<>>)} :
          /\ status' \in (IF r.h.st # "ok" THEN {r.h.st}
                          ELSE IF r.h.uaf THEN {"ok", "fault"} ELSE {"ok"})
          /\ dirty' = r.h.d
          /\ localMatrix' = r.h.l
          /\ worldMatrix' = r.h.w
          /\ lastOp' = Op("render", Null, Null, r.out)
    /\ UNCHANGED <<alive, position, scale, rotation, parent, children, sceneVars>>

(* The children of p in the order the setParent calls of the scene set-up  *)
(* appended them: by index.                                                *)
ChildrenByIndex(par, p) ==
    LET S == {f \in Frames : par[f] = p}
    IN CHOOSE s \in [1..Cardinality(S) -> S] :
          \A i \in 1..Cardinality(S), j \in 1..Cardinality(S) : i < j => s[i] < s[j]

(* The render loop on a scene of nodes created at the origin, each node    *)
(* either a root or the child of a node created before it (as main() makes *)
(* the later wagoniks children of the first), before the first pass of the *)
(* loop or after it.                                                       *)
InitRender ==
    /\ alive = [f \in Frames |-> TRUE]
    /\ position = [f \in Frames |-> ZeroVec]
    /\ scale = [f \in Frames |-> OneVec]
    /\ rotation = [f \in Frames |-> IdentityQuat]
    /\ \E par \in [Frames -> Frames \cup {Null}] :
          /\ \A f \in Frames : par[f] < f
          /\ parent = par
          /\ children = [p \in Frames |-> ChildrenByIndex(par, p)]
    /\ \E rendered \in BOOLEAN : dirty = [f \in Frames |-> ~rendered]
    /\ localMatrix = [f \in Frames |-> Identity]
    /\ worldMatrix = [f \in Frames |-> Identity]
    /\ status = "ok"
    /\ lastOp = NoOp
    /\ budget = MaxRenderOps
    /\ objects = [i \in 1..NumFrames |-> i]
    /\ named = [n \in {"wagonik" \o ToString(f) : f \in Frames} |->
                  CHOOSE f \in Frames : n = "wagonik" \o ToString(f)]
    /\ counter = 0
    /\ brk = NumFrames
    /\ issued = <<>>

NextRender ==
    \/ \E f \in Frames, space \in Spaces : Translate(f, <<MaxPos, 0, 0>>, space)
    \/ \E f \in Frames, p \in Frames \cup {Null} : SetParent(f, p)
    \/ \E f \in Frames : GetWorldMatrix(f)
    \/ Render

SpecRender == InitRender /\ [][NextRender]_vars

(* A pass that stops after the first frame of the order. *)
RECURSIVE passOver_one(_, _, _)
passOver_one(h, order, i) ==
    IF i > Len(order) \/ h.st # "ok" THEN h
    ELSE getMatrixOn(h, order[i])

(* getWorldMatrix called on the frames of order, from the i-th on. *)
RECURSIVE passOver(_, _, _)
passOver(h, order, i) ==
    IF i > Len(order) \/ h.st # "ok" THEN h
    ELSE LET h1 == getMatrixOn(h, order[i])
         IN passOver(h1, order, i + 1)

(* One full pass; the record counts the passes made in a row. *)
Pass(order) ==
    /\ Call
    /\ \E h \in {passOver(Heap, order, 1)} :
          /\ status' \in (IF h.st # "ok" THEN {h.st}
                          ELSE IF h.uaf THEN {"ok", "fault"} ELSE {"ok"})
          /\ dirty' = h.d
          /\ localMatrix' = h.l
          /\ worldMatrix' = h.w
    /\ lastOp' = Op("pass", Null, IF lastOp.op = "pass" THEN lastOp.arg + 1 ELSE 1, NoRet)
    /\ UNCHANGED <<alive, position, scale, rotation, parent, children, sceneVars>>

Orders == {s \in [1..NumFrames -> Frames] : \A i, j \in 1..NumFrames : s[i] = s[j] => i = j}

(* Passes after the mutations have stopped: frames built at the origin,    *)
(* each a root or the child of an earlier one, either never queried or     *)
(* queried once and then, the frames of moved, translated.                 *)
InitPasses ==
    /\ alive = [f \in Frames |-> TRUE]
    /\ scale = [f \in Frames |-> OneVec]
    /\ rotation = [f \in Frames |-> IdentityQuat]
    /\ \E par \in [Frames -> Frames \cup {Null}] :
          /\ \A f \in Frames : par[f] < f
          /\ parent = par
          /\ children = [p \in Frames |-> ChildrenByIndex(par, p)]
    /\ \E queried \in BOOLEAN, moved \in SUBSET Frames :
          /\ ~queried => moved = {}
          /\ dirty = [f \in Frames |-> ~queried \/ f \in moved]
          /\ position = [f \in Frames |-> IF f \in moved THEN <<MaxPos, 0, 0>> ELSE ZeroVec]
    /\ localMatrix = [f \in Frames |-> Identity]
    /\ worldMatrix = [f \in Frames |-> Identity]
    /\ status = "ok"
    /\ lastOp = NoOp
    /\ budget = MaxPasses
    /\ objects = <<>>
    /\ named = [n \in {} |-> Null]
    /\ counter = 0
    /\ brk = NumFrames
    /\ issued = <<>>

NextPasses == \E order \in Orders : Pass(order)

SpecPasses == InitPasses /\ [][NextPasses]_vars

(* The mutators and getters of the frames of a chain 1 <- 2 <- ... built   *)
(* by setParent calls on default-constructed frames: either no matrix has  *)
(* been asked for yet (every frame dirty) or the world matrix of the last  *)
(* frame has (every frame clean).                                          *)
InitChain ==
    /\ alive = [f \in Frames |-> TRUE]
    /\ position = [f \in Frames |-> ZeroVec]
    /\ scale = [f \in Frames |-> OneVec]
    /\ rotation = [f \in Frames |-> IdentityQuat]
    /\ parent = [f \in Frames |-> f - 1]
    /\ children = [f \in Frames |-> IF f < NumFrames THEN <<f + 1>> ELSE <<>>]
    /\ \E queried \in BOOLEAN : dirty = [f \in Frames |-> ~queried]
    /\ localMatrix = [f \in Frames |-> Identity]
    /\ worldMatrix = [f \in Frames |-> Identity]
    /\ status = "ok"
    /\ lastOp = NoOp
    /\ budget = MaxDirtyOps
    /\ objects = <<>>
    /\ named = [n \in {} |-> Null]
    /\ counter = 0
    /\ brk = NumFrames
    /\ issued = <<>>

NextDirty ==
    \/ \E f \in Frames : SetPosition(f, <<MaxPos, 0, 0>>)
    \/ \E f \in Frames : SetRotation(f, QuarterY)
    \/ \E f \in Frames : SetScale(f, <<MaxScale, 1, 1>>)
    \/ \E f \in Frames, space \in Spaces : Translate(f, <<MaxPos, 0, 0>>, space)
    \/ \E f \in Frames, space \in Spaces : Rotate(f, QuarterX, space)
    \/ \E f \in Frames : ScaleBy(f, <<MaxScale, 1, 1>>)
    \/ \E f \in Frames : Reset(f)
    \/ \E f \in Frames, p \in Frames \cup {Null} : SetParent(f, p)
    \/ \E f \in Frames : GetWorldMatrix(f)
    \/ \E f \in Frames : GetLocalMatrix(f)

SpecDirty == InitChain /\ [][NextDirty]_vars

(* Longer runs of creation, removal and reparenting, in which the          *)
(* allocator hands the slot of a removed node's frame to a new node.       *)
InitReuse ==
    /\ alive = [f \in Frames |-> FALSE]
    /\ position = [f \in Frames |-> ZeroVec]
    /\ scale = [f \in Frames |-> OneVec]
    /\ rotation = [f \in Frames |-> IdentityQuat]
    /\ parent = [f \in Frames |-> Null]
    /\ children = [f \in Frames |-> <<>>]
    /\ dirty = [f \in Frames |-> TRUE]
    /\ localMatrix = [f \in Frames |-> Identity]
    /\ worldMatrix = [f \in Frames |-> Identity]
    /\ status = "ok"
    /\ lastOp = NoOp
    /\ budget = MaxReuseOps
    /\ objects = <<>>
    /\ named = [n \in {} |-> Null]
    /\ counter = 0
    /\ brk = 0
    /\ issued = <<>>

NextReuse ==
    \/ \E n \in {"a", ""}, v \in Positions : CreateCube(n, v, OneVec)
    \/ \E i \in 0..NumFrames : RemoveObjectByIndex(i)
    \/ \E f \in Frames, p \in Frames \cup {Null} : SetParent(f, p)

SpecReuse == InitReuse /\ [][NextReuse]_vars

(* The same runs with detachment by the parent and the getter. *)
NextDetach ==
    \/ \E n \in {"a"}, v \in {<<MaxPos, 0, 0>>} : CreateCube(n, v, OneVec)
    \/ \E i \in 0..NumFrames : RemoveObjectByIndex(i)
    \/ \E f \in Frames, p \in Frames : SetParent(f, p)
    \/ \E f \in Frames, c \in Frames : RemoveChild(f, c)
    \/ \E f \in Frames : GetWorldMatrix(f)

SpecDetach == InitReuse /\ [][NextDetach]_vars

Spec == Init /\ [][Next]_vars

(* The hierarchy operations alone. *)
InitTree ==
    /\ alive = [f \in Frames |-> TRUE]
    /\ position = [f \in Frames |-> ZeroVec]
    /\ scale = [f \in Frames |-> OneVec]
    /\ rotation = [f \in Frames |-> IdentityQuat]
    /\ parent = [f \in Frames |-> Null]
    /\ children = [f \in Frames |-> <<>>]
    /\ dirty = [f \in Frames |-> TRUE]
    /\ localMatrix = [f \in Frames |-> Identity]
    /\ worldMatrix = [f \in Frames |-> Identity]
    /\ status = "ok"
    /\ lastOp = NoOp
    /\ budget = MaxTreeOps
    /\ objects = <<>>
    /\ named = [n \in {} |-> Null]
    /\ counter = 0
    /\ brk = NumFrames
    /\ issued = <<>>

NextTree ==
    \/ \E f \in Frames, p \in Frames \cup {Null} : SetParent(f, p)
    \/ \E f \in Frames, c \in Frames \cup {Null} : AddChild(f, c)
    \/ \E f \in Frames, c \in Frames : RemoveChild(f, c)

SpecTree == InitTree /\ [][NextTree]_vars

(* Moving, reparenting and querying live frames. *)
InitCache ==
    /\ alive = [f \in Frames |-> TRUE]
    /\ position = [f \in Frames |-> ZeroVec]
    /\ scale = [f \in Frames |-> OneVec]
    /\ rotation = [f \in Frames |-> IdentityQuat]
    /\ parent = [f \in Frames |-> Null]
    /\ children = [f \in Frames |-> <<>>]
    /\ dirty = [f \in Frames |-> TRUE]
    /\ localMatrix = [f \in Frames |-> Identity]
    /\ worldMatrix = [f \in Frames |-> Identity]
    /\ status = "ok"
    /\ lastOp = NoOp
    /\ budget = MaxCacheOps
    /\ objects = <<>>
    /\ named = [n \in {} |-> Null]
    /\ counter = 0
    /\ brk = NumFrames
    /\ issued = <<>>

NextCache ==
    \/ \E f \in Frames : SetPosition(f, <<MaxPos, 0, 0>>)
    \/ \E f \in Frames, p \in Frames \cup {Null} : SetParent(f, p)
    \/ \E f \in Frames : GetWorldMatrix(f)

SpecCache == InitCache /\ [][NextCache]_vars

----------------------------------------------------------------------------
(* Reference notions the properties are stated with. *)

RECURSIVE ParentPow(_, _)
ParentPow(f, k) == IF k = 0 \/ f = Null THEN f ELSE ParentPow(parent[f], k - 1)

AncestorsOf(f) == {ParentPow(f, k) : k \in 1..NumFrames} \ {Null}

Acyclic == \A f \in Frames : f \notin AncestorsOf(f)

Count(s, x) == Cardinality({i \in 1..Len(s) : s[i] = x})

(* Product of the current local matrices along the ancestor chain, root first. *)
RECURSIVE RefWorldN(_, _)
RefWorldN(f, k) ==
    IF parent[f] = Null \/ k = 0 THEN LocalOf(position[f], rotation[f], scale[f])
    ELSE Mul(RefWorldN(parent[f], k - 1), LocalOf(position[f], rotation[f], scale[f]))

RefWorld(f) == RefWorldN(f, NumFrames)

----------------------------------------------------------------------------
(* C1: parent propagation.  When a clean child c of p is queried right     *)
(* after p.setPosition, getWorldMatrix returns p's new world matrix        *)
(* composed with c's local matrix.                                         *)
C1_ParentPropagation ==
    [][\A c \in Frames, p \in Frames :
          ( /\ c # p /\ parent[c] = p /\ ~dirty[c] /\ Acyclic
            /\ lastOp.op = "setPosition" /\ lastOp.f = p
            /\ budget' = budget - 1
            /\ lastOp'.op = "getWorldMatrix" /\ lastOp'.f = c )
          => lastOp'.ret = Mul(RefWorld(p), LocalOf(position[c], rotation[c], scale[c]))]_vars

(* C2: query-order independence.  Whatever was mutated and queried before, *)
(* a getWorldMatrix call on a frame of an acyclic hierarchy returns the    *)
(* reference product of the frame's ancestor chain.                        *)
C2_QueryOrderIndependence ==
    (lastOp.op = "getWorldMatrix" /\ status = "ok" /\ Acyclic)
        => lastOp.ret = RefWorld(lastOp.f)

(* C3: recursive fetch forces ancestors.  A getWorldMatrix call on a dirty *)
(* frame leaves every ancestor clean and returns the reference product.    *)
C3_FetchForcesAncestors ==
    [][\A f \in Frames :
          ( /\ dirty[f] /\ Acyclic /\ budget' = budget - 1 /\ status' = "ok"
            /\ lastOp'.op = "getWorldMatrix" /\ lastOp'.f = f )
          => /\ \A a \in AncestorsOf(f) : ~dirty'[a]
             /\ lastOp'.ret = RefWorld(f)]_vars

(* C4: clean-cache invariant.  A clean frame caches the local matrix of    *)
(* its current attributes and the reference world matrix.                  *)
C4_CleanCache ==
    Acyclic =>
        \A f \in Frames : (alive[f] /\ ~dirty[f]) =>
            /\ localMatrix[f] = LocalOf(position[f], rotation[f], scale[f])
            /\ worldMatrix[f] = RefWorld(f)

(* C5: bidirectional consistency.  c is in p.children iff c.parent = p.    *)
C5_Bidirectional ==
    \A c \in Frames, p \in Frames :
        (c \in Range(children[p])) <=> (parent[c] = p)

C5_Witness ==
    /\ lastOp.op = "setParent" /\ lastOp.prev \in Frames /\ lastOp.arg \in Frames
    /\ lastOp.prev # lastOp.arg
    /\ \E x \in Frames \ {lastOp.f} : children[lastOp.arg] = <<x, lastOp.f>>
    /\ children[lastOp.prev] = <<>>
    /\ \A c \in Frames, p \in Frames : (c \in Range(children[p])) <=> (parent[c] = p)

(* C6: reparenting.  In any state, after c.setParent(A) directly followed  *)
(* by c.setParent(B), A # B: c is not in A.children, exactly once in       *)
(* B.children, in no other children list, and c.parent = B.                *)
C6_Reparenting ==
    ( /\ lastOp.op = "setParent" /\ lastOp.prev \in Frames
      /\ lastOp.arg \in Frames /\ lastOp.prev # lastOp.arg )
    => LET c == lastOp.f  A == lastOp.prev  B == lastOp.arg
       IN /\ c \notin Range(children[A])
          /\ Count(children[B], c) = 1
          /\ \A q \in Frames \ {B} : c \notin Range(children[q])
          /\ parent[c] = B

(* C7: destruction orphaning.  Every frame that was in the children list  *)
(* of a frame destroyed by the last call and is still alive has no parent. *)
C7_DestructionOrphans ==
    \A c \in lastOp.orph : alive[c] => parent[c] = Null

C7_Witness ==
    /\ lastOp.op = "removeObject" /\ lastOp.arg # Null
    /\ \E c \in lastOp.orph : alive[c] /\ c \in Range(objects)
    /\ status = "ok"

(* C8: no dangling references.  After removeObject destroyed a frame, no   *)
(* surviving frame has it as parent or in its children list.               *)
C8_NoDangling ==
    (lastOp.op = "removeObject" /\ lastOp.arg # Null) =>
        \A p \in Frames : alive[p] =>
            /\ lastOp.arg \notin Range(children[p])
            /\ parent[p] # lastOp.arg

(* C9: the parent relation is acyclic in every reachable state.            *)
C9_AcyclicHierarchy == Acyclic

(* C10: every getter call returns: the upward recursion of updateMatrices  *)
(* bottoms out.                                                            *)
C10_GettersTerminate == status # "overflow"

(* C11: idempotence of the getter.  A getWorldMatrix call on the frame the *)
(* call directly before it queried returns the same matrix and changes no  *)
(* cached matrix, no dirty flag and no other field of any frame.           *)
C11_GetterIdempotent ==
    [][( /\ lastOp.op = "getWorldMatrix" /\ Acyclic
         /\ budget' = budget - 1
         /\ lastOp'.op = "getWorldMatrix" /\ lastOp'.f = lastOp.f )
       => /\ lastOp'.ret = lastOp.ret
          /\ status' = "ok"
          /\ UNCHANGED <<frameVars, sceneVars>>]_vars

C11_Witness ==
    /\ lastOp.op = "getWorldMatrix" /\ lastOp.prev = Null
    /\ parent[lastOp.f] # Null
    /\ lastOp.ret # Identity
    /\ lastOp.ret = worldMatrix[lastOp.f]
    /\ ~dirty[lastOp.f] /\ status = "ok"

(* C12: registry consistency.  Every node of the ordered collection is the *)
(* target of at most one name-map entry, and every name-map entry points   *)
(* to a live node of the ordered collection.                               *)
C12_RegistryConsistent ==
    /\ \A f \in Range(objects) :
           Cardinality({n \in DOMAIN named : named[n] = f}) <= 1
    /\ \A n \in DOMAIN named : named[n] \in Range(objects) /\ alive[named[n]]

C12_Witness ==
    /\ lastOp.op = "removeObject" /\ lastOp.arg # Null
    /\ Len(objects) = 2
    /\ \E n \in DOMAIN named : named[n] = objects[2]
    /\ \A n \in DOMAIN named : named[n] # objects[1]
    /\ \A n \in DOMAIN named : named[n] \in Range(objects)

(* C13: count arithmetic.  A create* call raises getObjectCount() by one,  *)
(* also under a name that is already registered; removeObject of a         *)
(* registered name or of an index in range lowers it by one; removeObject  *)
(* of a name that is not registered leaves it as it is.                    *)
C13_CountArithmetic ==
    [][budget' = budget - 1 =>
        /\ lastOp'.op \in CreateOps => getObjectCount' = getObjectCount + 1
        /\ (lastOp'.op = "removeObject" /\ lastOp'.key # NoKey) =>
               getObjectCount' = IF lastOp'.key \in DOMAIN named
                                 THEN getObjectCount - 1 ELSE getObjectCount
        /\ (lastOp'.op = "removeObject" /\ lastOp'.key = NoKey
               /\ lastOp'.idx < getObjectCount) =>
               getObjectCount' = getObjectCount - 1]_vars

C13_Witness ==
    /\ lastOp.op = "removeObject" /\ lastOp.col.ph = 4
    /\ getObjectCount = 1
    /\ lastOp.key \notin DOMAIN named

(* C14: generated names are unique.  The names generateUniqueName has      *)
(* handed out since the process started are pairwise distinct, whatever    *)
(* the kinds of the nodes and whatever was removed or cleared in between,  *)
(* and a node created with an empty name is registered under the name      *)
(* generated for it.                                                       *)
C14_AutoNamesUnique ==
    /\ \A i \in DOMAIN issued, j \in DOMAIN issued : i # j => issued[i] # issued[j]
    /\ (lastOp.op \in CreateOps /\ lastOp.key = "") =>
           /\ issued # <<>>
           /\ issued[Len(issued)] \in DOMAIN named
           /\ named[issued[Len(issued)]] = lastOp.f

C14_Witness ==
    /\ lastOp.op \in CreateOps /\ lastOp.key = ""
    /\ Len(issued) = MaxCounter
    /\ Len(objects) = 1
    /\ issued[1] \notin DOMAIN named
    /\ named[issued[Len(issued)]] = objects[1]

(* C15: invalid lookups.  getObject with a name that is not registered or  *)
(* with an index >= getObjectCount() returns null; removeObject with a     *)
(* name that is not registered or an index out of range leaves the ordered *)
(* collection, the name map and every node unchanged.                      *)
C15_InvalidLookups ==
    [][budget' = budget - 1 =>
        LET byName == lastOp'.key # NoKey
            unknown == byName /\ lastOp'.key \notin DOMAIN named
            outside == ~byName /\ lastOp'.idx >= getObjectCount
        IN /\ (lastOp'.op = "getObject" /\ (unknown \/ outside)) =>
                  lastOp'.ret = Null
           /\ (lastOp'.op = "removeObject" /\ (unknown \/ outside)) =>
                  /\ UNCHANGED <<objects, named, frameVars>>
                  /\ status' = "ok"]_vars

C15_Witness ==
    /\ lastOp.op = "removeObject" /\ lastOp.key = NoKey
    /\ lastOp.idx >= getObjectCount
    /\ getObjectCount >= 2
    /\ lastOp.arg = Null
    /\ Cardinality(DOMAIN named) = getObjectCount

(* C16: removal removes both entries.  After removeObject of a registered  *)
(* name or of an index in range the removed node is destroyed, is not in   *)
(* the ordered collection and is the target of no name-map entry (the name *)
(* it was registered under is no longer a key); every other node keeps its *)
(* entry; the remaining nodes keep their order, those behind the removed   *)
(* one moving down by one index.                                           *)
C16_RemovalRemovesBoth ==
    [][( /\ budget' = budget - 1 /\ lastOp'.op = "removeObject"
         /\ IF lastOp'.key # NoKey THEN lastOp'.key \in DOMAIN named
            ELSE lastOp'.idx < getObjectCount )
       => LET obj == IF lastOp'.key # NoKey THEN named[lastOp'.key]
                     ELSE objects[lastOp'.idx + 1]
              i == Find(objects, obj)
          IN /\ ~alive'[obj]
             /\ obj \notin Range(objects')
             /\ \A k \in DOMAIN named' : named'[k] # obj
             /\ \A k \in DOMAIN named :
                    IF named[k] = obj THEN k \notin DOMAIN named'
                    ELSE k \in DOMAIN named' /\ named'[k] = named[k]
             /\ Len(objects') = Len(objects) - 1
             /\ \A j \in 1..Len(objects') :
                    objects'[j] = IF j < i THEN objects[j] ELSE objects[j + 1]]_vars

C16_Witness ==
    /\ lastOp.op = "removeObject" /\ lastOp.arg # Null
    /\ lastOp.idx \in 0..1
    /\ getObjectCount = 2
    /\ Cardinality(DOMAIN named) = 2
    /\ ~alive[lastOp.arg] /\ lastOp.arg \notin Range(objects)

(* C17: name collision is last-writer-wins.  After two create* calls with  *)
(* the same explicit name n, both nodes are in the ordered collection and  *)
(* getObject(n) returns the second; removeObject(n) then removes the       *)
(* second node only, and the getObject(n) after it returns null while the  *)
(* first node is still in the ordered collection, under no name.           *)
C17_LastWriterWins ==
    LET c == lastOp.col IN
    /\ c.ph \in {2, 3} =>
           /\ c.a # c.b /\ c.a \in Range(objects) /\ c.b \in Range(objects)
           /\ c.n \in DOMAIN named /\ named[c.n] = c.b
    /\ c.ph = 3 => lastOp.ret = c.b
    /\ c.ph \in {4, 5} =>
           /\ objects = SelectSeq(c.objs, LAMBDA x : x # c.b)
           /\ ~alive[c.b]
           /\ c.a \in Range(objects) /\ alive[c.a]
           /\ c.n \notin DOMAIN named
    /\ c.ph = 5 =>
           /\ lastOp.ret = Null
           /\ \A k \in DOMAIN named : named[k] # c.a
           /\ \E i \in 1..getObjectCount : objects[i] = c.a

C17_Witness ==
    /\ lastOp.op = "getObject" /\ lastOp.col.ph = 5
    /\ lastOp.key = lastOp.col.n
    /\ lastOp.ret = Null
    /\ lastOp.col.a \in Range(objects)

(* C18: batch transforms ignore the hierarchy.  translateAll, rotateAll    *)
(* and scaleAll apply their mutation exactly once to every node of the     *)
(* registry, child or not, and to nothing else.  And when a root A and its *)
(* child B are registered with identity rotations and unit scales, a query *)
(* of A after translateAll(v, WORLD) returns A's former world position     *)
(* moved by v, a query of B returns B's moved by 2v.                       *)
C18_BatchIgnoresHierarchy ==
    /\ [][(budget' = budget - 1 /\ lastOp'.op \in {"translateAll", "rotateAll", "scaleAll"})
          => \A f \in Frames :
                LET in == f \in Range(objects)
                    op == lastOp'.op
                    x == lastOp'.arg
                    sp == lastOp'.key
                IN /\ position'[f] =
                         IF in /\ op = "translateAll"
                         THEN (IF sp = "WORLD" THEN VAdd(position[f], x)
                               ELSE VAdd(position[f], quatRotate(rotation[f], x)))
                         ELSE position[f]
                   /\ rotation'[f] =
                         IF in /\ op = "rotateAll"
                         THEN (IF sp = "WORLD" THEN normalize(quatMul(rotation[f], x))
                               ELSE normalize(quatMul(x, rotation[f])))
                         ELSE rotation[f]
                   /\ scale'[f] = IF in /\ op = "scaleAll" THEN VMul(scale[f], x) ELSE scale[f]
                   /\ parent'[f] = parent[f] /\ children'[f] = children[f]]_vars
    /\ [](( /\ lastOp.op = "getWorldMatrix" /\ lastOp.snap.on /\ status = "ok"
            /\ lastOp.f \in Range(objects)
            /\ rotation[lastOp.f] = IdentityQuat /\ scale[lastOp.f] = OneVec )
          => LET f == lastOp.f
                 A == parent[f]
                 v == lastOp.snap.v
                 was == lastOp.snap.pos
             IN /\ A = Null => lastOp.ret = Translation(VAdd(was[f], v))
                /\ ( /\ A # Null /\ A \in Range(objects) /\ parent[A] = Null
                     /\ rotation[A] = IdentityQuat /\ scale[A] = OneVec )
                   => lastOp.ret = Translation(VAdd(VAdd(was[A], was[f]), VAdd(v, v))))

C18_Witness ==
    /\ lastOp.op = "getWorldMatrix" /\ lastOp.snap.on /\ status = "ok"
    /\ lastOp.snap.v # ZeroVec
    /\ parent[lastOp.f] # Null /\ parent[parent[lastOp.f]] = Null
    /\ {lastOp.f, parent[lastOp.f]} \subseteq Range(objects)
    /\ ~dirty[lastOp.f] /\ ~dirty[parent[lastOp.f]]
    /\ lastOp.ret = Translation(VAdd(VAdd(lastOp.snap.pos[parent[lastOp.f]],
                                        lastOp.snap.pos[lastOp.f]),
                                   VAdd(lastOp.snap.v, lastOp.snap.v)))

(* C19: setParent with the current parent is a no-op.  f.setParent(p) with *)
(* parent[f] = p (p null included) changes no field of any frame; with     *)
(* another p, f is no longer in the old parent's children, is the last     *)
(* element of p's children behind the elements p had, has parent p and is  *)
(* dirty.                                                                  *)
C19_SetParentSameIsNoOp ==
    [][(budget' = budget - 1 /\ lastOp'.op = "setParent")
       => LET f == lastOp'.f
              p == lastOp'.arg
              old == parent[f]
          IN IF old = p
             THEN UNCHANGED <<frameVars, sceneVars, status>>
             ELSE /\ old # Null => f \notin Range(children'[old])
                  /\ p # Null => children'[p] = Append(children[p], f)
                  /\ parent'[f] = p
                  /\ dirty'[f]]_vars

(* C20: removeChild.  p.removeChild(c) for a c in p.children leaves c out  *)
(* of p.children, with no parent and dirty, and a getWorldMatrix of c      *)
(* directly after it returns c's local matrix; for a c that is not in      *)
(* p.children it changes no field of any frame, c's parent included.       *)
C20_RemoveChild ==
    /\ [][(budget' = budget - 1 /\ lastOp'.op = "removeChild")
          => LET p == lastOp'.f
                 c == lastOp'.arg
             IN IF c \in Range(children[p])
                THEN /\ c \notin Range(children'[p])
                     /\ parent'[c] = Null
                     /\ dirty'[c]
                ELSE /\ UNCHANGED <<frameVars, sceneVars, status>>
                     /\ parent'[c] = parent[c]]_vars
    /\ [][( /\ lastOp.op = "removeChild" /\ parent[lastOp.arg] = Null
            /\ dirty[lastOp.arg]
            /\ budget' = budget - 1 /\ status' = "ok"
            /\ lastOp'.op = "getWorldMatrix" /\ lastOp'.f = lastOp.arg )
          => /\ lastOp'.ret = LocalOf(position[lastOp.arg], rotation[lastOp.arg],
                                      scale[lastOp.arg])
             /\ lastOp'.ret = localMatrix'[lastOp.arg]]_vars

(* C21: local and world translate.  On a frame whose rotation is the       *)
(* identity, translate(v, LOCAL) and translate(v, WORLD) both move the     *)
(* position by v.  On a frame turned a quarter about Y, translating along  *)
(* X in WORLD space changes only the X coordinate of the position, in      *)
(* LOCAL space only the Z coordinate.                                      *)
C21_LocalVsWorldTranslate ==
    [][(budget' = budget - 1 /\ lastOp'.op = "translate")
       => LET f == lastOp'.f
              v == lastOp'.arg
              sp == lastOp'.key
              was == position[f]
              now == position'[f]
          IN /\ rotation[f] = IdentityQuat => now = VAdd(was, v)
             /\ (rotation[f] = QuarterY /\ v[1] # 0 /\ v[2] = 0 /\ v[3] = 0)
                => /\ sp = "WORLD"
                      => now[1] # was[1] /\ now[2] = was[2] /\ now[3] = was[3]
                   /\ sp = "LOCAL"
                      => now[1] = was[1] /\ now[2] = was[2] /\ now[3] # was[3]]_vars

C21_Witness ==
    /\ lastOp.op = "translate" /\ lastOp.key = "LOCAL"
    /\ rotation[lastOp.f] = QuarterY
    /\ lastOp.arg = <<MaxPos, 0, 0>>
    /\ position[lastOp.f] = <<MaxPos, 0, -MaxPos>>

(* The turn a quaternion stands for, and whether two turns commute. *)
TurnOf(q) == Rotation(q)[1]

Commute(d, c) == MatMul(TurnOf(d), TurnOf(c)) = MatMul(TurnOf(c), TurnOf(d))

(* C22: composition order of rotate.  rotate(delta, LOCAL) sets the        *)
(* rotation to normalize(delta * current), the turn "current, then delta"; *)
(* rotate(delta, WORLD) sets it to normalize(current * delta).  For a      *)
(* quarter turn delta about X, Y or Z the two results are equal exactly    *)
(* when the turns of delta and of the current rotation commute.            *)
C22_RotationOrder ==
    [][(budget' = budget - 1 /\ lastOp'.op = "rotate")
       => LET f == lastOp'.f
              d == lastOp'.arg
              cur == rotation[f]
              now == rotation'[f]
          IN /\ IF lastOp'.key = "LOCAL"
                THEN /\ now = normalize(quatMul(d, cur))
                     /\ TurnOf(now) = MatMul(TurnOf(d), TurnOf(cur))
                ELSE /\ now = normalize(quatMul(cur, d))
                     /\ TurnOf(now) = MatMul(TurnOf(cur), TurnOf(d))
             /\ (rotate(f, d, "LOCAL") = rotate(f, d, "WORLD")) <=> Commute(d, cur)]_vars

C22_Witness ==
    /\ lastOp.op = "rotate" /\ lastOp.key = "LOCAL" /\ lastOp.arg = QuarterY
    /\ rotation[lastOp.f] = <<1, 1, 1, -1>>
    /\ ~Commute(QuarterX, rotation[lastOp.f])
    /\ Commute(<<1, 1, 1, -1>>, rotation[lastOp.f])

(* The image of a point under a matrix, and under the local transform of   *)
(* frame f taken step by step: scale, then turn, then translate.           *)
Apply(m, pt) == VAdd(MatVec(m[1], pt), m[2])

Probes == {ZeroVec, <<1, 0, 0>>, <<0, 1, 0>>, <<0, 0, 1>>}

StepwiseLocal(f, pt) == VAdd(position[f], quatRotate(rotation[f], VMul(scale[f], pt)))

(* C23: matrix composition.  A getter call that recomputes frame f leaves  *)
(* as its local matrix the map "scale, then turn, then translate"          *)
(* (Translation * Rotation * Scale), and as its world matrix the parent's  *)
(* world matrix applied after the local one (parentWorld * local), or the  *)
(* local matrix itself when f is a root.                                   *)
C23_MatrixComposition ==
    [][( /\ budget' = budget - 1
         /\ lastOp'.op \in {"getWorldMatrix", "getLocalMatrix"}
         /\ dirty[lastOp'.f] /\ status' = "ok" )
       => LET f == lastOp'.f
              p == parent[f]
          IN /\ \A pt \in Probes : Apply(localMatrix'[f], pt) = StepwiseLocal(f, pt)
             /\ p = Null => worldMatrix'[f] = localMatrix'[f]
             /\ p # Null
                => \A pt \in Probes :
                      Apply(worldMatrix'[f], pt)
                         = Apply(worldMatrix'[p], StepwiseLocal(f, pt))
             /\ ~dirty'[f]]_vars

C23_Witness ==
    /\ lastOp.op = "getWorldMatrix" /\ status = "ok"
    /\ parent[lastOp.f] # Null /\ ~dirty[lastOp.f] /\ ~dirty[parent[lastOp.f]]
    /\ rotation[lastOp.f] = QuarterY /\ scale[lastOp.f] = <<MaxScale, 1, 1>>
    /\ position[lastOp.f] # ZeroVec
    /\ lastOp.ret = Mul(worldMatrix[parent[lastOp.f]], localMatrix[lastOp.f])
    /\ lastOp.ret # Mul(localMatrix[lastOp.f], worldMatrix[parent[lastOp.f]])
    /\ localMatrix[lastOp.f]
          # LocalOf_TSR(position[lastOp.f], rotation[lastOp.f], scale[lastOp.f])

Mutators == {"setPosition", "setRotation", "setScale", "translate", "rotate",
             "scale", "reset", "setParent"}

Getters == {"getWorldMatrix", "getLocalMatrix"}

C25_WeakCacheInvariant ==
    (status = "ok" /\ Acyclic /\ \A f \in Frames : alive[f])
    => \A f \in Frames :
          (\A g \in {f} \cup AncestorsOf(f) : ~dirty[g])
          => worldMatrix[f] = RefWorld(f)

C25_Witness ==
    /\ lastOp.op \in Getters /\ status = "ok" /\ Acyclic
    /\ \E f \in Frames, c \in Frames :
          /\ parent[f] # Null /\ parent[c] = f
          /\ \A g \in {f} \cup AncestorsOf(f) : ~dirty[g]
          /\ worldMatrix[f] = RefWorld(f) /\ worldMatrix[f] # Identity
          /\ dirty[c] /\ worldMatrix[c] # RefWorld(c)

(* Every parent of a registered node is registered and was created before  *)
(* the node.                                                               *)
ParentsFirst ==
    \A f \in Range(objects) :
       parent[f] # Null
       => parent[f] \in Range(objects) /\ Find(objects, parent[f]) < Find(objects, f)

Depth ==
    CHOOSE d \in 0..NumFrames :
       /\ \A f \in Frames : Cardinality(AncestorsOf(f)) <= d
       /\ \E f \in Frames : Cardinality(AncestorsOf(f)) = d

Consistent == \A f \in Frames : ~dirty[f] /\ worldMatrix[f] = RefWorld(f)

C28_OrphanReturnsLocal ==
    [][( /\ lastOp.op = "removeObject" /\ lastOp.arg # Null
         /\ budget' = budget - 1
         /\ lastOp'.op = "getWorldMatrix"
         /\ lastOp'.f \in lastOp.orph /\ parent[lastOp'.f] = Null
         /\ status' = "ok" )
       => lastOp'.ret = LocalOf(position[lastOp'.f], rotation[lastOp'.f],
                                scale[lastOp'.f])]_vars

(* C29: teardown never touches a destroyed frame.  SceneManager::clear()   *)
(* returns without having written through a pointer to a frame it has      *)
(* already destroyed, whatever the parent links of the registered nodes.   *)
C29_TeardownSafe == lastOp.op = "clear" => status = "ok"

(* C30: auto-naming never displaces a registered node.  A create* call     *)
(* with an empty name registers the node under a name the map did not      *)
(* hold, and every entry of the map still leads to the node it led to.     *)
C30_AutoNameFresh ==
    [][(budget' = budget - 1 /\ lastOp'.op \in CreateOps /\ lastOp'.key = "")
       => /\ issued'[Len(issued')] \notin DOMAIN named
          /\ \A n \in DOMAIN named : n \in DOMAIN named' /\ named'[n] = named[n]]_vars

====
